---- MODULE Spec2Model ----
(***************************************************************************)
(* RIO: a seekable, lazily fetched, range-cached read stream over a remote *)
(* HTTP resource (rio/__init__.py, class RemoteIO) and the interval set    *)
(* that records which byte spans are cached (rio/utils.py, class           *)
(* ExistingRanges).                                                        *)
(*                                                                         *)
(* Offsets are 0-based as in the code; TLA+ sequences are 1-based, so the  *)
(* byte at offset i of the local buffer is buffer[i + 1].  Tuples of the   *)
(* code are TLA+ sequences of length 2.                                    *)
(***************************************************************************)
EXTENDS Integers, Sequences, FiniteSets, TLC

\* ---------------------------------------------------------------- bounds
\* Number of bytes of the remote resource.
Size == 3
\* Number of calls made on one stream.
MaxCalls == 4
\* Largest bounded read count explored.
MaxN == 2
\* Largest backward distance below offset 0 a seek is followed to.
MaxBack == 1
\* Largest offset handed to add / iter_partition in the RangeSet-only runs.
MaxOff == 4
\* Number of calls made on one RangeSet in the RangeSet-only runs.
MaxAdds == 3

\* Largest stream position / seek offset explored: one past the end.
MaxPos == Size + 1

\* Python's None, for an optional integer (a range end, the resolved size,
\* a read count).  No offset of the model comes near it.
None == -1000

VARIABLES
    pos,                 \* RemoteIO.pos
    existing_ranges,     \* RemoteIO.existing_ranges.existing_ranges
    buffer,              \* RemoteIO.buffer, the local cache (a BytesIO)
    streaming_response,  \* RemoteIO.streaming_response, the current Session
    server_read,         \* RemoteIO.server_read
    server_full_size,    \* RemoteIO.server_full_size
    session_closed,      \* RemoteIO.session (the shared transport) was closed
    responses,           \* the upstream responses this stream holds open
    upstream,            \* what the remote server does (fixed per behaviour)
    calls,               \* number of calls made so far
    query,               \* RangeSet-only runs: the last query and its answer
    last                 \* the last call made and what it returned

vars == <<pos, existing_ranges, buffer, streaming_response, server_read,
          server_full_size, session_closed, responses, upstream, calls, query,
          last>>

Max(a, b) == IF a >= b THEN a ELSE b
Min(a, b) == IF a <= b THEN a ELSE b

\* ------------------------------------------------------- ExistingRanges

\* Python's tuple comparison x < y raises TypeError when the first
\* elements are equal and the second ones differ with one of them None.
TupleLtRaises(x, y) == x[1] = y[1] /\ x[2] # y[2] /\ (x[2] = None \/ y[2] = None)

\* x < y on 2-tuples, lexicographic, when it does not raise.
TupleLt(x, y) == IF x[1] # y[1] THEN x[1] < y[1] ELSE x[2] < y[2]

\* bisect.bisect_right(a, x, lo, hi) on 0-based lo, hi: the insertion index,
\* or -1 when a comparison raises TypeError.
RECURSIVE bisect_right(_, _, _, _)
bisect_right(a, x, lo, hi) ==
    IF lo >= hi THEN lo
    ELSE LET mid == (lo + hi) \div 2 IN
         IF TupleLtRaises(x, a[mid + 1]) THEN -1
         ELSE IF TupleLt(x, a[mid + 1]) THEN bisect_right(a, x, lo, mid)
         ELSE bisect_right(a, x, mid + 1, hi)

\* list.insert(i, x), i 0-based.
InsertAt(a, i, x) == SubSeq(a, 1, i) \o <<x>> \o SubSeq(a, i + 1, Len(a))

\* The coalescing pass of add with `>` for the `>=` of line 19: a range that
\* only touches the one before it is kept apart.
RECURSIVE coalesce_apart(_, _, _)
coalesce_apart(L, items, index) ==
    IF items = <<>> THEN [ranges |-> SubSeq(L, 1, index + 1), err |-> FALSE]
    ELSE LET start == Head(items)[1]
             end == Head(items)[2]
             cur == L[index + 1]
         IN  IF cur[2] = None THEN [ranges |-> L, err |-> TRUE]
             ELSE IF cur[2] > start
                  THEN IF end = None THEN [ranges |-> L, err |-> TRUE]
                       ELSE coalesce_apart([L EXCEPT ![index + 1] = <<cur[1], Max(cur[2], end)>>],
                                           Tail(items), index)
                  ELSE coalesce_apart([L EXCEPT ![index + 2] = <<start, end>>],
                                      Tail(items), index + 1)

\* The coalescing pass of add: L is the list being rewritten in place, items
\* the not yet visited part of the copy L[1:], index the code's index.
\* Result: the list the object is left with, and whether TypeError was raised
\* (None >= start, or max(end, None)).
RECURSIVE coalesce(_, _, _)
coalesce(L, items, index) ==
    IF items = <<>> THEN [ranges |-> SubSeq(L, 1, index + 1), err |-> FALSE]
    ELSE LET start == Head(items)[1]
             end == Head(items)[2]
             cur == L[index + 1]
         IN  IF cur[2] = None THEN [ranges |-> L, err |-> TRUE]
             ELSE IF cur[2] >= start
                  THEN IF end = None THEN [ranges |-> L, err |-> TRUE]
                       ELSE coalesce([L EXCEPT ![index + 1] = <<cur[1], Max(cur[2], end)>>],
                                     Tail(items), index)
                  ELSE coalesce([L EXCEPT ![index + 2] = <<start, end>>],
                                Tail(items), index + 1)

\* ExistingRanges.add(start, end): the list afterwards and whether the call
\* raised TypeError.
add(ranges, start, end) ==
    IF \E i \in 1..Len(ranges) : ranges[i] = <<start, end>>
    THEN [ranges |-> ranges, err |-> FALSE]
    ELSE LET at == bisect_right(ranges, <<start, end>>, 0, Len(ranges)) IN
         IF at = -1 THEN [ranges |-> ranges, err |-> TRUE]
         ELSE LET L == InsertAt(ranges, at, <<start, end>>) IN
              coalesce(L, Tail(L), 0)

\* functools.reduce(tuple.__add__, ranges, ()): all endpoints in list order.
RECURSIVE Flatten(_)
Flatten(ranges) ==
    IF ranges = <<>> THEN <<>>
    ELSE <<ranges[1][1], ranges[1][2]>> \o Flatten(Tail(ranges))

\* The endpoints strictly inside (start, end), in list order.
RECURSIVE partitioners(_, _, _)
partitioners(points, start, end) ==
    IF points = <<>> THEN <<>>
    ELSE IF start < Head(points) /\ Head(points) < end
         THEN <<Head(points)>> \o partitioners(Tail(points), start, end)
         ELSE partitioners(Tail(points), start, end)

\* ExistingRanges.iter_partition(start, end) with integer start, end:
\* the yielded pairs in order; err when an endpoint None meets `start < p`.
iter_partition(ranges, start, end) ==
    LET points == Flatten(ranges) IN
    IF \E i \in 1..Len(points) : points[i] = None
    THEN [parts |-> <<>>, err |-> TRUE]
    ELSE LET cuts == partitioners(points, start, end)
             lefts == <<start>> \o cuts
             rights == cuts \o <<end>>
         IN  [parts |-> IF cuts = <<>> THEN << <<start, end>> >>
                        ELSE [i \in 1..Len(rights) |-> <<lefts[i], rights[i]>>],
              err |-> FALSE]

\* One element of the any() without its second conjunct (line 46): only the
\* start of the query is tested against the range.
InRange_start(r, start, end) ==
    IF ~(r[1] <= start) THEN "false"
    ELSE IF r[2] = None THEN "raise"
    ELSE IF ~(start <= r[2]) THEN "false"
    ELSE "true"

\* One element of the any() in __contains__: "true", "false" or "raise".
InRange(r, start, end) ==
    IF ~(r[1] <= start) THEN "false"
    ELSE IF r[2] = None THEN "raise"
    ELSE IF ~(start <= r[2]) THEN "false"
    ELSE IF end = None THEN "raise"
    ELSE IF ~(r[1] <= end) THEN "false"
    ELSE IF end <= r[2] THEN "true" ELSE "false"

\* ExistingRanges.__contains__((start, end)): any() stops at the first true
\* element and propagates the first TypeError met before it.
RECURSIVE contains(_, _, _)
contains(ranges, start, end) ==
    IF ranges = <<>> THEN "false"
    ELSE LET t == InRange(Head(ranges), start, end) IN
         IF t = "false" THEN contains(Tail(ranges), start, end) ELSE t

\* ------------------------------------------------------------ upstream

\* The resource's byte at offset i (never 0, which is the buffer's padding).
Data(i) == i + 1

\* streaming_response is None.
NoResponse == [set |-> FALSE, off |-> 0, end |-> 0, cr |-> FALSE, closed |-> FALSE]

\* Where the body of a response ends: the resource's end, or earlier when the
\* upstream truncates bodies (cut is the environment's choice for that).
BodyEnd(off, cut) == Max(off, IF upstream.truncates THEN Min(Size, cut) ELSE Size)

\* session.request(..., headers Range: bytes=<offset>-, stream=True).
\* off is the offset of the next byte the body yields.  A negative offset
\* makes the header "bytes=-3-", which is no valid range: the server ignores
\* it and sends the whole resource, without Content-Range.
OpenForward(offset, cut) ==
    IF offset < 0
    THEN [set |-> TRUE, off |-> 0, end |-> BodyEnd(0, cut), cr |-> FALSE, closed |-> FALSE]
    ELSE [set |-> TRUE, off |-> offset, end |-> BodyEnd(offset, cut),
          cr |-> upstream.cr, closed |-> FALSE]

\* session.request(..., headers Range: bytes=-<n>, stream=True): the last n
\* bytes of the resource (all of it when n exceeds the size).
OpenSuffix(n, cut) ==
    LET off == Max(0, Size - n) IN
    [set |-> TRUE, off |-> off, end |-> BodyEnd(off, cut), cr |-> upstream.cr,
     closed |-> FALSE]

\* streaming_response.raw.read(amt): up to amt bytes (all that is left when
\* amt is None or negative), nothing from a closed response.
RawRead(resp, amt) ==
    LET avail == IF resp.closed THEN 0 ELSE resp.end - resp.off
        k == IF amt = None \/ amt < 0 THEN avail ELSE Min(amt, avail)
    IN  [chunk |-> [i \in 1..k |-> Data(resp.off + i - 1)],
         resp |-> [resp EXCEPT !.off = resp.off + k]]

\* ---------------------------------------------------- the local buffer

\* buffer.seek(at); buffer.write(data): BytesIO pads a gap with zero bytes
\* and leaves the buffer alone when data is empty.
BufWrite(buf, at, data) ==
    IF data = <<>> THEN buf
    ELSE [i \in 1..Max(Len(buf), at + Len(data)) |->
            IF at < i /\ i <= at + Len(data) THEN data[i - at]
            ELSE IF i <= Len(buf) THEN buf[i] ELSE 0]

\* buffer.seek(at); buffer.read(n): BytesIO reads to its end when n is None
\* or negative.
BufRead(buf, at, n) ==
    LET avail == Max(0, Len(buf) - at)
        k == IF n = None \/ n < 0 THEN avail ELSE Min(n, avail)
    IN  SubSeq(buf, at + 1, at + k)

\* ------------------------------------------- responses held open
\* sessions: responses of seek's range request not closed yet; probes:
\* responses of the size probe GET (nc_response) not closed yet; most_sessions
\* and most: the largest number of Sessions, and of responses of both kinds,
\* that were open at one moment so far.

NoResponses == [sessions |-> 0, probes |-> 0, most_sessions |-> 0, most |-> 0]

\* response.close() on resp (a no-op on None and on a closed response).
response_close(held, resp) ==
    IF resp.set /\ ~resp.closed
    THEN [held EXCEPT !.sessions = held.sessions - 1]
    ELSE held

\* session.request(..., stream=True) returned: one more Session is open.
session_request(held) ==
    [held EXCEPT !.sessions = held.sessions + 1,
                 !.most_sessions = Max(held.most_sessions, held.sessions + 1),
                 !.most = Max(held.most, held.sessions + held.probes + 1)]

\* session.get(..., stream=True) returned nc_response; it is closed again
\* only when closed says so.
session_get(held, closed) ==
    [held EXCEPT !.probes = IF closed THEN held.probes ELSE held.probes + 1,
                 !.most = Max(held.most, held.sessions + held.probes + 1)]

\* ------------------------------------------------------------ RemoteIO

\* The fields of the RemoteIO object, as one record the methods transform.
Self == [pos |-> pos, existing_ranges |-> existing_ranges, buffer |-> buffer,
         streaming_response |-> streaming_response, server_read |-> server_read,
         server_full_size |-> server_full_size, responses |-> responses]

\* attempt_size_resolving without its first test (lines 193-194): the cached
\* size is never reused.
attempt_size_resolving_uncached(st) ==
    IF st.streaming_response.set /\ st.streaming_response.cr
    THEN [st |-> [st EXCEPT !.server_full_size = Size], ret |-> Size,
          heads |-> 0, gets |-> 0, leaked |-> 0]
    ELSE IF upstream.cl
    THEN [st |-> [st EXCEPT !.server_full_size = Size], ret |-> Size,
          heads |-> 1, gets |-> 0, leaked |-> 0]
    ELSE IF upstream.cr
    THEN [st |-> [st EXCEPT !.server_full_size = Size,
                            !.responses = session_get(st.responses, TRUE)],
          ret |-> Size, heads |-> 1, gets |-> 1, leaked |-> 0]
    ELSE [st |-> [st EXCEPT !.responses = session_get(st.responses, FALSE)],
          ret |-> None, heads |-> 1, gets |-> 1, leaked |-> 1]

\* attempt_size_resolving without the `if content_length:` test (line 221):
\* the default 0 of a missing Content-Length is taken for the size.
attempt_size_resolving_zero(st) ==
    IF st.server_full_size # None
    THEN [st |-> st, ret |-> st.server_full_size, heads |-> 0, gets |-> 0, leaked |-> 0]
    ELSE IF st.streaming_response.set /\ st.streaming_response.cr
    THEN [st |-> [st EXCEPT !.server_full_size = Size], ret |-> Size,
          heads |-> 0, gets |-> 0, leaked |-> 0]
    ELSE IF upstream.cl
    THEN [st |-> [st EXCEPT !.server_full_size = Size], ret |-> Size,
          heads |-> 1, gets |-> 0, leaked |-> 0]
    ELSE [st |-> [st EXCEPT !.server_full_size = 0], ret |-> 0,
          heads |-> 1, gets |-> 0, leaked |-> 0]

\* RemoteIO.attempt_size_resolving(): the object afterwards, the value
\* returned, and the requests made (heads: metadata probes, gets: ranged
\* probes from offset 0; leaked: ranged probes left open).
attempt_size_resolving(st) ==
    IF st.server_full_size # None
    THEN [st |-> st, ret |-> st.server_full_size, heads |-> 0, gets |-> 0, leaked |-> 0]
    ELSE IF st.streaming_response.set /\ st.streaming_response.cr
    THEN [st |-> [st EXCEPT !.server_full_size = Size], ret |-> Size,
          heads |-> 0, gets |-> 0, leaked |-> 0]
    ELSE IF upstream.cl
    THEN [st |-> [st EXCEPT !.server_full_size = Size], ret |-> Size,
          heads |-> 1, gets |-> 0, leaked |-> 0]
    ELSE IF upstream.cr
    THEN [st |-> [st EXCEPT !.server_full_size = Size,
                            !.responses = session_get(st.responses, TRUE)],
          ret |-> Size, heads |-> 1, gets |-> 1, leaked |-> 0]
    ELSE [st |-> [st EXCEPT !.responses = session_get(st.responses, FALSE)],
          ret |-> None, heads |-> 1, gets |-> 1, leaked |-> 1]

\* The tail of seek without the hypothetical_range test (lines 87-91): a
\* request is made whether or not the span is cached.
seek_open_always(st, initial, hyp, offset, whence, cut, sz) ==
    [st |-> [st EXCEPT !.streaming_response =
                 IF whence <= 1 THEN OpenForward(offset, cut)
                 ELSE OpenSuffix(IF offset < 0 THEN -offset ELSE offset, cut),
                       !.responses = session_request(
                           response_close(st.responses, st.streaming_response))],
     err |-> "none", path |-> "opened", opened |-> 1,
     closes |-> IF st.streaming_response.set THEN 1 ELSE 0, sz |-> sz, ret |-> None]

\* The tail of seek without lines 98-102: the previous response is replaced
\* but never closed.
seek_open_unclosed(st, initial, hyp, offset, whence, cut, sz) ==
    LET c == contains(st.existing_ranges, hyp[1], hyp[2]) IN
    IF c = "raise"
    THEN [st |-> st, err |-> "TypeError", path |-> "raise", opened |-> 0,
          closes |-> 0, sz |-> sz, ret |-> None]
    ELSE IF c = "true"
    THEN [st |-> st, err |-> "none", path |-> "cached", opened |-> 0,
          closes |-> 0, sz |-> sz, ret |-> None]
    ELSE [st |-> [st EXCEPT !.streaming_response =
                      IF whence <= 1 THEN OpenForward(offset, cut)
                      ELSE OpenSuffix(IF offset < 0 THEN -offset ELSE offset, cut),
                            !.responses = session_request(st.responses)],
          err |-> "none", path |-> "opened", opened |-> 1, closes |-> 0,
          sz |-> sz, ret |-> None]

\* The tail of seek, from the hypothetical_range test on (lines 87-110).
seek_open(st, initial, hyp, offset, whence, cut, sz) ==
    LET c == contains(st.existing_ranges, hyp[1], hyp[2]) IN
    IF c = "raise"
    THEN [st |-> st, err |-> "TypeError", path |-> "raise", opened |-> 0,
          closes |-> 0, sz |-> sz, ret |-> None]
    ELSE IF c = "true"
    THEN [st |-> st, err |-> "none", path |-> "cached", opened |-> 0,
          closes |-> 0, sz |-> sz, ret |-> None]
    ELSE [st |-> [st EXCEPT !.streaming_response =
                      IF whence <= 1 THEN OpenForward(offset, cut)
                      ELSE OpenSuffix(IF offset < 0 THEN -offset ELSE offset, cut),
                            !.responses = session_request(
                                response_close(st.responses, st.streaming_response))],
          err |-> "none", path |-> "opened", opened |-> 1,
          closes |-> IF st.streaming_response.set THEN 1 ELSE 0, sz |-> sz, ret |-> None]

\* The middle of seek: the `initial == self.pos` test (lines 81-85).
seek_moved(st, initial, hyp, offset, whence, cut, sz) ==
    IF initial = st.pos
    THEN [st |-> st, err |-> "none", path |-> "same", opened |-> 0,
          closes |-> 0, sz |-> sz, ret |-> None]
    ELSE seek_open(st, initial, hyp, offset, whence, cut, sz)

\* RemoteIO.seek(offset, whence), whence in {0, 1, 2}.  sz is what the size
\* resolution it ran did; ret is the value returned: every path ends in a
\* bare return or falls off the end of the method, so it is None.
NoSizing == [heads |-> 0, gets |-> 0, leaked |-> 0]
seek(st, offset, whence, cut) ==
    LET initial == st.pos IN
    IF whence = 0
    THEN IF st.pos = offset
         THEN [st |-> st, err |-> "none", path |-> "same", opened |-> 0,
               closes |-> 0, sz |-> NoSizing, ret |-> None]
         ELSE seek_moved([st EXCEPT !.pos = offset], initial,
                         <<offset, offset + 1>>, offset, whence, cut, NoSizing)
    ELSE IF whence = 1
    THEN LET p == st.pos + offset IN
         seek_moved([st EXCEPT !.pos = p], initial, <<p, p + 1>>, p, whence, cut,
                    NoSizing)
    ELSE LET off == IF offset < 0 THEN offset ELSE -offset
             r == attempt_size_resolving(st)
             sz == [heads |-> r.heads, gets |-> r.gets, leaked |-> r.leaked]
         IN  IF r.ret = None
             THEN [st |-> r.st, err |-> "ValueError", path |-> "raise",
                   opened |-> 0, closes |-> 0, sz |-> sz, ret |-> None]
             ELSE seek_moved([r.st EXCEPT !.pos = r.ret + off], initial,
                             <<r.ret + off, r.ret>>, off, whence, cut, sz)

\* What a pass of read's loop hands on when it raises err: the object as it
\* is by then, no bytes, and the Sessions opened and closed so far.
read_raise(st, err, opened, closes) ==
    [st |-> st, err |-> err, chunk |-> <<>>, opened |-> opened, closes |-> closes]

\* A cache miss after its seek (lines 153-159): sk is what seek(start) did.
\* The requested extent (start, end) is added whatever raw.read returned.
read_fetch(sk, start, end) ==
    IF sk.err # "none" THEN read_raise(sk.st, sk.err, sk.opened, sk.closes)
    ELSE IF ~sk.st.streaming_response.set
    THEN read_raise(sk.st, "RuntimeError", sk.opened, sk.closes)
    ELSE LET rr == RawRead(sk.st.streaming_response,
                           IF end # None THEN end - start ELSE None)
             a == add(sk.st.existing_ranges, start, end)
         IN  [st |-> [sk.st EXCEPT !.streaming_response = rr.resp,
                                   !.buffer = BufWrite(sk.st.buffer, start, rr.chunk),
                                   !.server_read = sk.st.server_read + Len(rr.chunk),
                                   !.existing_ranges = a.ranges],
              err |-> IF a.err THEN "TypeError" ELSE "none",
              chunk |-> IF a.err THEN <<>> ELSE rr.chunk,
              opened |-> sk.opened, closes |-> sk.closes]

\* One pass of read's loop (lines 140-161) for the partition (start, end):
\* the object afterwards, the bytes it gathered, and the Sessions its seek
\* opened and closed.
read_partition(st, start, end, cut) ==
    LET c == contains(st.existing_ranges, start, end) IN
    IF start < 0 THEN read_raise(st, "ValueError", 0, 0)
    ELSE IF c = "raise" THEN read_raise(st, "TypeError", 0, 0)
    ELSE IF c = "true"
    THEN [st |-> st, err |-> "none",
          chunk |-> BufRead(st.buffer, start, IF end # None THEN end - start ELSE None),
          opened |-> 0, closes |-> 0]
    ELSE read_fetch(seek(st, start, 0, cut), start, end)

\* chunk += ... : what the loop has gathered (acc) after one more pass (p).
read_gather(acc, p) ==
    [st |-> p.st, err |-> p.err,
     chunk |-> IF p.err = "none" THEN acc.chunk \o p.chunk ELSE <<>>,
     opened |-> acc.opened + p.opened, closes |-> acc.closes + p.closes]

\* read's loop over the partitions (lines 138-161); an exception ends it.
RECURSIVE read_loop(_, _, _)
read_loop(acc, parts, cut) ==
    IF parts = <<>> \/ acc.err # "none" THEN acc
    ELSE read_loop(read_gather(acc, read_partition(acc.st, Head(parts)[1],
                                                    Head(parts)[2], cut)),
                   Tail(parts), cut)

\* The end of read (lines 163-165): pos advances by the bytes returned.  l
\* is what the loop did, r what the size resolution did.
read_return(l, r) ==
    [st |-> IF l.err = "none"
            THEN [l.st EXCEPT !.pos = l.st.pos + Len(l.chunk)] ELSE l.st,
     err |-> l.err, chunk |-> l.chunk, opened |-> l.opened, closes |-> l.closes,
     sz |-> [heads |-> r.heads, gets |-> r.gets, leaked |-> r.leaked]]

\* read after its size resolution r (lines 129-165).
read_sized(r, n, cut) ==
    LET ip == IF r.ret # None
              THEN iter_partition(r.st.existing_ranges, r.st.pos,
                                  IF n # None THEN r.st.pos + n ELSE r.ret)
              ELSE [parts |-> << <<r.st.pos, None>> >>, err |-> FALSE]
    IN  IF ip.err
        THEN read_return(read_raise(r.st, "TypeError", 0, 0), r)
        ELSE read_return(read_loop(read_raise(r.st, "none", 0, 0), ip.parts, cut), r)

\* RemoteIO.read(n), n an integer or None.
read(st, n, cut) == read_sized(attempt_size_resolving(st), n, cut)

\* RemoteIO.tell().
tell(st) == st.pos

\* RemoteIO.close(): the object afterwards (the transport session is closed
\* too, see Close).
close(st) ==
    IF st.streaming_response.set
    THEN [st EXCEPT !.streaming_response.closed = TRUE,
                    !.responses = response_close(st.responses, st.streaming_response)]
    ELSE st

\* ------------------------------------------------------- the stream run

\* What the environment may choose for the end of a response body.
Cuts == IF upstream.truncates THEN 0..Size ELSE {Size}

\* last: the call made last (op), the exception it raised (err), the path
\* it took (path), and the upstream requests it made: range requests that
\* opened a Session (opened) and size probes (probes).
NoQuery == [a |-> 0, b |-> 0, parts |-> <<>>, hit |-> "none"]

NoCall == [op |-> "none", err |-> "none", path |-> "none", opened |-> 0,
           probes |-> 0]

Store(st) ==
    /\ pos' = st.pos
    /\ existing_ranges' = st.existing_ranges
    /\ buffer' = st.buffer
    /\ streaming_response' = st.streaming_response
    /\ server_read' = st.server_read
    /\ server_full_size' = st.server_full_size
    /\ responses' = st.responses

InBounds(st) ==
    /\ calls < MaxCalls
    /\ st.pos >= -MaxBack
    /\ st.pos <= MaxPos

\* A stream as __init__ leaves it (no buffer passed in).
Fresh ==
    /\ pos = 0
    /\ existing_ranges = <<>>
    /\ buffer = <<>>
    /\ streaming_response = NoResponse
    /\ server_read = 0
    /\ server_full_size = None
    /\ session_closed = FALSE
    /\ responses = NoResponses
    /\ calls = 0
    /\ query = NoQuery
    /\ last = NoCall

\* An upstream that sends every body whole; it may or may not state
\* Content-Range on ranged responses and Content-Length on HEAD.
Init ==
    /\ Fresh
    /\ upstream \in [cr : BOOLEAN, cl : BOOLEAN, truncates : {FALSE}]

\* An upstream that states both headers and may end any body early.
InitShort ==
    /\ Fresh
    /\ upstream = [cr |-> TRUE, cl |-> TRUE, truncates |-> TRUE]

\* The offsets a caller passes: an absolute one is never negative, a relative
\* one may be.
SeekOffsets(whence) == IF whence = 0 THEN 0..MaxPos ELSE -MaxBack..MaxPos

Seek ==
    \E whence \in 0..2, cut \in Cuts : \E offset \in SeekOffsets(whence) :
        LET r == seek(Self, offset, whence, cut) IN
        /\ InBounds(r.st)
        /\ Store(r.st)
        /\ last' = [op |-> "seek", err |-> r.err, path |-> r.path,
                    opened |-> r.opened, probes |-> r.sz.heads + r.sz.gets]
        /\ calls' = calls + 1
        /\ UNCHANGED <<session_closed, upstream, query>>

\* path is "hit" when the whole span asked for was covered before the call.
Read ==
    \E n \in {None} \cup 0..MaxN, cut \in Cuts :
        LET r == read(Self, n, cut) IN
        /\ InBounds(r.st)
        /\ Store(r.st)
        /\ last' = [op |-> "read", err |-> r.err,
                    path |-> IF n # None /\ contains(existing_ranges, pos, pos + n) = "true"
                             THEN "hit" ELSE "miss",
                    opened |-> r.opened, probes |-> r.sz.heads + r.sz.gets]
        /\ calls' = calls + 1
        /\ UNCHANGED <<session_closed, upstream, query>>

Tell ==
    /\ calls < MaxCalls
    /\ calls' = calls + 1
    /\ last' = [NoCall EXCEPT !.op = "tell"]
    /\ UNCHANGED <<pos, existing_ranges, buffer, streaming_response, server_read,
                   server_full_size, session_closed, responses, upstream, query>>

Close ==
    /\ calls < MaxCalls
    /\ calls' = calls + 1
    /\ Store(close(Self))
    /\ session_closed' = TRUE
    /\ last' = [NoCall EXCEPT !.op = "close"]
    /\ UNCHANGED <<upstream, query>>

Next == Seek \/ Read \/ Tell \/ Close

Spec == Init /\ [][Next]_vars

SpecShort == InitShort /\ [][Next]_vars

\* ------------------------------------------------- the RangeSet alone

\* An ExistingRanges object driven directly: add with any pair of offsets,
\* iter_partition and __contains__ with any query.  The two queries leave the
\* object as it is, so a run makes its add calls first and ends with one query:
\* every list the add calls can build is met with every query.
Building == last.op \in {"none", "add"}

StreamIdle ==
    UNCHANGED <<pos, buffer, streaming_response, server_read, server_full_size,
                session_closed, responses, upstream>>

InitRanges ==
    /\ Fresh
    /\ upstream = [cr |-> TRUE, cl |-> TRUE, truncates |-> FALSE]

Add ==
    \E start \in 0..MaxOff, end \in 0..MaxOff :
        /\ Building
        /\ calls < MaxAdds
        /\ calls' = calls + 1
        /\ existing_ranges' = add(existing_ranges, start, end).ranges
        /\ last' = [NoCall EXCEPT !.op = "add"]
        /\ query' = [NoQuery EXCEPT !.a = start, !.b = end]
        /\ StreamIdle

IterPartition ==
    \E a \in 0..MaxOff, b \in 0..MaxOff :
        /\ Building
        /\ a < b
        /\ last' = [NoCall EXCEPT !.op = "iter_partition"]
        /\ query' = [NoQuery EXCEPT !.a = a, !.b = b,
                                    !.parts = iter_partition(existing_ranges, a, b).parts]
        /\ UNCHANGED <<existing_ranges, calls>>
        /\ StreamIdle

Contains ==
    \E a \in 0..MaxOff, b \in 0..MaxOff :
        /\ Building
        /\ a < b
        /\ last' = [NoCall EXCEPT !.op = "contains"]
        /\ query' = [NoQuery EXCEPT !.a = a, !.b = b,
                                    !.hit = contains(existing_ranges, a, b)]
        /\ UNCHANGED <<existing_ranges, calls>>
        /\ StreamIdle

NextRanges == Add \/ IterPartition \/ Contains

SpecRanges == InitRanges /\ [][NextRanges]_vars

\* The same object when every add call is given a ByteRange (start < end).
AddByteRange ==
    \E start \in 0..MaxOff, end \in 0..MaxOff :
        /\ start < end
        /\ Building
        /\ calls < MaxAdds
        /\ calls' = calls + 1
        /\ existing_ranges' = add(existing_ranges, start, end).ranges
        /\ last' = [NoCall EXCEPT !.op = "add"]
        /\ query' = [NoQuery EXCEPT !.a = start, !.b = end]
        /\ StreamIdle

NextByteRanges == AddByteRange \/ IterPartition \/ Contains

SpecByteRanges == InitRanges /\ [][NextByteRanges]_vars

\* ----------------------------------------------------------- the claims

\* The resource's bytes at offsets [p, min(p + n, Size)).
Expected(p, n) == [i \in 1..Max(0, Min(p + n, Size) - p) |-> Data(p + i - 1)]

\* The size can be resolved by some strategy of attempt_size_resolving.
Resolvable == upstream.cr \/ upstream.cl

\* close() has not been called on the stream.
NotClosed == ~session_closed /\ ~streaming_response.closed

\* C1: with a resolvable size and an upstream that never delivers short, after
\* any sequence of seek and read calls a read(n) at position p that returns,
\* returns the resource's bytes at [p, min(p + n, Size)).
C1_ReadReturnsResourceBytes ==
    (Resolvable /\ ~upstream.truncates /\ NotClosed /\ pos >= 0) =>
        \A n \in 0..MaxN :
            LET r == read(Self, n, Size) IN
            r.err = "none" => r.chunk = Expected(pos, n)

\* C2: a read that starts at position p and produces k bytes leaves the
\* position at p + k (stated for the spans that lie inside the resource).
C2_ReadAdvancesByLength ==
    (NotClosed /\ pos >= 0) =>
        \A n \in 0..MaxN, cut \in Cuts :
            LET r == read(Self, n, cut) IN
            (r.err = "none" /\ pos + n <= Size) => r.st.pos = pos + Len(r.chunk)

\* C3: with a resolvable size, the first call on a fresh stream being a read,
\* it succeeds with at most one range request; and no read on an open stream
\* ever raises the "stream was not open after seeking" RuntimeError.
C3_ReadFindsASession ==
    Resolvable =>
        /\ (calls = 1 /\ last.op = "read") => (last.err = "none" /\ last.opened <= 1)
        /\ (last.op = "read" /\ ~session_closed) => last.err # "RuntimeError"

\* C4: in any reachable state of an open stream, read(n), seek back to the
\* starting position, read(n) again: both reads return the same bytes.
C4_RereadIsIdentical ==
    (Resolvable /\ NotClosed /\ pos >= 0) =>
        \A n \in 0..MaxN, cut \in Cuts :
            LET r1 == read(Self, n, cut)
                sk == seek(r1.st, pos, 0, cut)
                r2 == read(sk.st, n, cut)
            IN  (r1.err = "none" /\ sk.err = "none" /\ r2.err = "none")
                    => r1.chunk = r2.chunk

\* C5: a read whose whole span [pos, pos + n) is covered by the RangeSet makes
\* no upstream request (no range request, no size probe) and leaves
\* server_read and the current Session as they were.
C5_CoveredReadIsLocal ==
    \A n \in 0..MaxN, cut \in Cuts :
        contains(existing_ranges, pos, pos + n) = "true" =>
            LET r == read(Self, n, cut) IN
            /\ r.opened = 0
            /\ r.sz.heads + r.sz.gets = 0
            /\ r.st.server_read = server_read
            /\ r.st.streaming_response = streaming_response

\* A covered read has been made.
C5_Witness == last.op = "read" /\ last.path = "hit" /\ last.err = "none"

\* The size a seek from the end works with: the cached one, else the
\* resource's.
Total == IF server_full_size # None THEN server_full_size ELSE Size

\* The absolute position seek(offset, whence) asks for.
Candidate(offset, whence) ==
    IF whence = 0 THEN offset
    ELSE IF whence = 1 THEN pos + offset
    ELSE Total - (IF offset < 0 THEN -offset ELSE offset)

\* The span seek(offset, whence) probes the RangeSet with.
Probe(offset, whence) ==
    IF whence = 2 THEN <<Candidate(offset, whence), Total>>
    ELSE <<Candidate(offset, whence), Candidate(offset, whence) + 1>>

\* C6: a seek whose probe span is covered by the RangeSet moves the position
\* to the candidate and leaves the Session as it was: nothing closed, nothing
\* opened.
C6_CoveredSeekKeepsSession ==
    \A offset \in -MaxBack..MaxPos, whence \in 0..2, cut \in Cuts :
        contains(existing_ranges, Probe(offset, whence)[1], Probe(offset, whence)[2]) = "true" =>
            LET r == seek(Self, offset, whence, cut) IN
            /\ r.err = "none"
            /\ r.st.pos = Candidate(offset, whence)
            /\ r.st.streaming_response = streaming_response
            /\ r.opened = 0
            /\ r.closes = 0

\* A seek has found its probe span in the RangeSet while a Session was open.
C6_Witness ==
    last.op = "seek" /\ last.path = "cached" /\ streaming_response.set

\* No strategy resolves the size: none cached, no Content-Range on the open
\* Session, no Content-Length from HEAD, no Content-Range on the ranged probe.
Unresolvable ==
    /\ server_full_size = None
    /\ ~(streaming_response.set /\ streaming_response.cr)
    /\ ~upstream.cl
    /\ ~upstream.cr

\* C7: when the size cannot be resolved, seek(offset, 2) raises ValueError and
\* leaves the position, the RangeSet and the current Session as they were.
C7_SeekFromEndNeedsSize ==
    Unresolvable =>
        \A offset \in -MaxBack..MaxPos, cut \in Cuts :
            LET r == seek(Self, offset, 2, cut) IN
            /\ r.err = "ValueError"
            /\ r.st.pos = pos
            /\ r.st.existing_ranges = existing_ranges
            /\ r.st.streaming_response = streaming_response

\* A seek from the end has failed on a stream that had moved and had a Session.
C7_Witness ==
    /\ last.op = "seek" /\ last.err = "ValueError"
    /\ pos # 0 /\ streaming_response.set

\* Byte offset x is covered by a stored range.
Covered(x) ==
    \E k \in 1..Len(existing_ranges) :
        existing_ranges[k][1] <= x /\ x < existing_ranges[k][2]

\* No stored pair is empty (start = end).
NoEmptyPair ==
    \A i \in 1..Len(existing_ranges) : existing_ranges[i][1] # existing_ranges[i][2]

\* C8: after every add call the stored ranges are well-formed (start < end),
\* pairwise disjoint and non-adjacent, and sorted ascending by start (stated
\* for the lists that hold no empty pair).
C8_AddKeepsRangeSetNormal ==
    NoEmptyPair =>
        /\ \A i \in 1..Len(existing_ranges) :
               existing_ranges[i][1] < existing_ranges[i][2]
        /\ \A i, j \in 1..Len(existing_ranges) :
               i < j => existing_ranges[i][2] < existing_ranges[j][1]

\* C9: iter_partition(a, b), a < b, yields non-empty sub-ranges that start at
\* a, end at b and follow one another without gap or overlap; on an empty
\* RangeSet it yields the single span (a, b) (stated for the lists that hold
\* no empty pair).
C9_PartitionCoversQuery ==
    (last.op = "iter_partition" /\ NoEmptyPair) =>
        LET p == query.parts IN
        /\ Len(p) >= 1
        /\ p[1][1] = query.a
        /\ p[Len(p)][2] = query.b
        /\ \A i \in 1..Len(p) : p[i][1] < p[i][2]
        /\ \A i \in 1..(Len(p) - 1) : p[i][2] = p[i + 1][1]
        /\ existing_ranges = <<>> => p = << <<query.a, query.b>> >>

\* C10: every sub-range iter_partition(a, b) yields is either covered whole by
\* one stored range (and __contains__ says so) or holds no covered byte; with
\* {(0,2),(3,4)} stored, iter_partition(1, 4) yields (1,2),(2,3),(3,4).
C10_PartitionIsHomogeneous ==
    last.op = "iter_partition" =>
        /\ \A i \in 1..Len(query.parts) :
              LET s == query.parts[i][1]
                  e == query.parts[i][2]
              IN  \/ /\ \A x \in s..(e - 1) : Covered(x)
                     /\ contains(existing_ranges, s, e) = "true"
                  \/ \A x \in s..(e - 1) : ~Covered(x)
        /\ (existing_ranges = << <<0, 2>>, <<3, 4>> >> /\ query.a = 1 /\ query.b = 4)
              => query.parts = << <<1, 2>>, <<2, 3>>, <<3, 4>> >>

\* C11: close() closes neither the transport session given at construction
\* nor the local buffer; it closes only the stream's own Session.
C11_CloseKeepsSharedSession ==
    /\ close(Self).buffer = buffer
    /\ last.op = "close" => ~session_closed

\* The Sessions of the stream that are open now, by its own reference.
OpenSessions == IF streaming_response.set /\ ~streaming_response.closed THEN 1 ELSE 0

\* C12: the stream never has two Sessions open at one moment: a seek that
\* opens a Session has closed the previous one before it issues the request,
\* and the only Session open is the one streaming_response refers to.
C12_OneSessionAtATime ==
    /\ responses.most_sessions <= 1
    /\ responses.sessions = OpenSessions

\* A seek has opened a Session on a stream that had already read bytes from
\* an earlier one, close() never having been called.
C12_Witness ==
    /\ last.op = "seek" /\ last.path = "opened"
    /\ server_read > 0 /\ ~session_closed

\* The cached size is what attempt_size_resolving returns, with the object
\* left as it is and no probe made.
SizeIsCached ==
    server_full_size # None =>
        LET r == attempt_size_resolving(Self) IN
        r.ret = server_full_size /\ r.st = Self /\ r.heads + r.gets = 0

C14_SeekReturnsPosition ==
    \A whence \in 0..2, cut \in Cuts : \A offset \in SeekOffsets(whence) :
        LET r == seek(Self, offset, whence, cut) IN
        r.err = "none" => r.ret = tell(r.st)

\* C15: every offset a stored range covers was fetched: the local buffer
\* holds the resource's byte there.
C15_RangeSetCoversOnlyFetched ==
    \A x \in 0..(MaxPos + MaxN) :
        Covered(x) => (x < Len(buffer) /\ x < Size /\ buffer[x + 1] = Data(x))

\* C19: the stream never holds more than one upstream response open, and no
\* size probe's response stays open after attempt_size_resolving returns.
C19_OneResponseInFlight ==
    /\ responses.most <= 1
    /\ responses.probes = 0

\* C20: the stream position is never negative.
C20_PositionNonNegative == pos >= 0

\* The byte offsets the ranges of a list cover.
Coverage(ranges) ==
    {x \in 0..(MaxOff + 1) :
        \E k \in 1..Len(ranges) : ranges[k][1] <= x /\ x < ranges[k][2]}

\* Every range of the list is well-formed and lies strictly before the next,
\* with a gap between them.
Separated(ranges) ==
    /\ \A i \in 1..Len(ranges) : ranges[i][1] < ranges[i][2]
    /\ \A i \in 1..(Len(ranges) - 1) : ranges[i][2] < ranges[i + 1][1]

\* C16: add(start, end) with start < end raises nothing and makes the covered
\* bytes exactly the bytes covered before plus [start, end); ranges that
\* overlap or touch end up as one range and ranges with a gap stay apart;
\* add(0,1), add(1,2) gives {(0,2)}, then add(3,4) gives {(0,2),(3,4)}, then
\* add(2,3) gives {(0,4)}.  Stated in the states an add call can follow; the
\* two queries leave the list as it is.
C16_AddIsUnionOfCoverage ==
    /\ \A start \in 0..MaxOff, end \in 0..MaxOff :
           (Building /\ start < end) =>
               LET a == add(existing_ranges, start, end) IN
               /\ ~a.err
               /\ Coverage(a.ranges) = Coverage(existing_ranges) \cup start..(end - 1)
               /\ Separated(existing_ranges) => Separated(a.ranges)
    /\ existing_ranges = <<>> => add(existing_ranges, 0, 1).ranges = << <<0, 1>> >>
    /\ existing_ranges = << <<0, 1>> >>
           => add(existing_ranges, 1, 2).ranges = << <<0, 2>> >>
    /\ existing_ranges = << <<0, 2>> >>
           => add(existing_ranges, 3, 4).ranges = << <<0, 2>>, <<3, 4>> >>
    /\ existing_ranges = << <<0, 2>>, <<3, 4>> >>
           => add(existing_ranges, 2, 3).ranges = << <<0, 4>> >>

\* The third add call, add(2, 3), has closed the gap between two ranges.
C16_Witness ==
    /\ last.op = "add" /\ calls = 3
    /\ query.a = 2 /\ query.b = 3
    /\ existing_ranges = << <<0, 4>> >>

\* C17: add(start, end) with start > end raises nothing and leaves the list
\* add(end, start) would have left from the same list.
C17_AddSwapsReversedPair ==
    \A start \in 0..MaxOff, end \in 0..MaxOff :
        start > end =>
            LET a == add(existing_ranges, start, end) IN
            ~a.err /\ a.ranges = add(existing_ranges, end, start).ranges

\* [a, b) lies within the bytes of one stored range.
WithinOne(a, b) ==
    \E k \in 1..Len(existing_ranges) :
        a..(b - 1) \subseteq existing_ranges[k][1]..(existing_ranges[k][2] - 1)

\* C18: for a query start < end, __contains__ answers true exactly when
\* [start, end) lies within one stored range, which is exactly when every
\* byte of it is covered.
C18_ContainsIffWithinOneRange ==
    last.op = "contains" =>
        /\ query.hit \in {"true", "false"}
        /\ query.hit = "true" <=> WithinOne(query.a, query.b)
        /\ WithinOne(query.a, query.b) <=> \A x \in query.a..(query.b - 1) : Covered(x)

\* A query that overlaps a stored range only in part was answered false.
C18_Witness ==
    /\ last.op = "contains" /\ query.hit = "false"
    /\ Covered(query.a) /\ ~Covered(query.b - 1)

====
